---- MODULE Spec2Model ----
(***************************************************************************)
(* Model of streamlit_app.py: one script run of the Smart Email Search     *)
(* page (upload, size check, read_csv, column normalisation, filter mask,  *)
(* cached model load, per-row summarize button) and the process-wide       *)
(* st.cache_resource entry that survives from one script run to the next.  *)
(*                                                                         *)
(* Text is a sequence of one-character strings.  A cell of the data frame  *)
(* is a record [na, s]: na = TRUE is pandas' NaN (an empty CSV cell).      *)
(* pandas is the 2.x line that the Streamlit releases offering             *)
(* use_container_width depend on (pandas < 3): Series.astype(str) turns    *)
(* NaN into the text "nan", and Series.str.contains takes its pattern as a *)
(* regular expression (regex=True is the default).                         *)
(***************************************************************************)
EXTENDS Integers, Sequences, FiniteSets, TLC

VARIABLES pc, runs, uploaded_file, search, click, df, results_df, warnings,
          errors, steps, cache, loadAttempts, cacheHits, model, tokenizer,
          fault, summary, calls

vars == <<pc, runs, uploaded_file, search, click, df, results_df, warnings,
          errors, steps, cache, loadAttempts, cacheHits, model, tokenizer,
          fault, summary, calls>>

----------------------------------------------------------------------------
(* Program constants *)

MAX_FILE_SIZE_MB == 500

MAX_FILE_SIZE_BYTES == MAX_FILE_SIZE_MB * 1024 * 1024

MIN_CHARS == 50

MAX_CHARS == 1024

(* Bounds of the model *)

MaxRows == 2

MaxTail == 2

MaxRuns == 2

----------------------------------------------------------------------------
(* Characters and Python string methods *)

UpperCase == <<"A","B","C","D","E","F","G","H","I","J","K","L","M",
               "N","O","P","Q","R","S","T","U","V","W","X","Y","Z">>

LowerCase == <<"a","b","c","d","e","f","g","h","i","j","k","l","m",
               "n","o","p","q","r","s","t","u","v","w","x","y","z">>

Whitespace == {" ", "\t", "\n"}

LowerChar(ch) ==
    IF \E i \in 1..26 : UpperCase[i] = ch
    THEN LowerCase[CHOOSE i \in 1..26 : UpperCase[i] = ch]
    ELSE ch

lower(s) == [i \in 1..Len(s) |-> LowerChar(s[i])]

RECURSIVE lstrip(_)
lstrip(s) == IF s # <<>> /\ Head(s) \in Whitespace THEN lstrip(Tail(s)) ELSE s

RECURSIVE rstrip(_)
rstrip(s) ==
    IF s # <<>> /\ s[Len(s)] \in Whitespace
    THEN rstrip(SubSeq(s, 1, Len(s) - 1))
    ELSE s

strip(s) == rstrip(lstrip(s))

Repeat(ch, n) == [i \in 1..n |-> ch]

(* Column names the script looks up *)

USERNAME == <<"u","s","e","r","n","a","m","e">>

EMAIL == <<"e","m","a","i","l">>

DEPARTMENT == <<"d","e","p","a","r","t","m","e","n","t">>

BODY == <<"b","o","d","y">>

OptionalFields == <<USERNAME, EMAIL, DEPARTMENT>>

Fields == {USERNAME, EMAIL, DEPARTMENT, BODY}

----------------------------------------------------------------------------
(* pandas *)

NaN == [na |-> TRUE, s |-> <<>>]

Str(s) == [na |-> FALSE, s |-> s]

NAN_TEXT == <<"n","a","n">>

NoFrame == [columns |-> <<>>, data |-> <<>>]

(* pd.read_csv: the header line names the columns, the rows get the        *)
(* RangeIndex 0..n-1 and an empty cell is read as NaN.                     *)
read_csv(csv) ==
    [columns |-> csv.header,
     data    |-> [i \in 1..Len(csv.lines) |->
                    [index |-> i - 1,
                     vals  |-> [j \in 1..Len(csv.header) |->
                                  IF csv.lines[i][j] = <<>>
                                  THEN NaN
                                  ELSE Str(csv.lines[i][j])]]]]

(* df.columns = [c.strip().lower() for c in df.columns] *)
NormalizeColumns(d) ==
    [d EXCEPT !.columns = [j \in 1..Len(d.columns) |-> lower(strip(d.columns[j]))]]

HasColumn(d, c) == \E j \in 1..Len(d.columns) : d.columns[j] = c

ColPos(d, c) == CHOOSE j \in 1..Len(d.columns) : d.columns[j] = c

(* Series.astype(str) *)
astype_str(v) == IF v.na THEN Str(NAN_TEXT) ELSE v

(* re.search(pat, s, re.IGNORECASE) for a pattern of literal characters    *)
(* and the metacharacter "." (any character but a newline).                *)
re_search(pat, s) ==
    \E i \in 0..(Len(s) - Len(pat)) :
        \A j \in 1..Len(pat) :
            \/ pat[j] = "." /\ s[i + j] # "\n"
            \/ pat[j] # "." /\ LowerChar(pat[j]) = LowerChar(s[i + j])

(* Series.str.contains(pat, case=False, na=False) on one value *)
str_contains(v, pat) == IF v.na THEN FALSE ELSE re_search(pat, v.s)

(* df[c].astype(str).str.contains(pat, case=False, na=False) *)
ColumnContains(d, c, pat) ==
    [i \in 1..Len(d.data) |->
        str_contains(astype_str(d.data[i].vals[ColPos(d, c)]), pat)]

(* Variant: the mask starts all False *)
InitialMaskFalse(d) == [i \in 1..Len(d.data) |-> FALSE]

(* pd.Series([True] * len(df), index=df.index) *)
InitialMask(d) == [i \in 1..Len(d.data) |-> TRUE]

(* Variant: mask = other, which forgets the earlier filters *)
MaskAssign(m, other) == other

(* mask &= other *)
MaskAnd(m, other) == [i \in 1..Len(m) |-> m[i] /\ other[i]]

RECURSIVE SelectRows(_, _)
(* df[mask]: the rows whose mask entry is True, in the frame's order *)
SelectRows(rows, m) ==
    IF rows = <<>> THEN <<>>
    ELSE IF Head(m) THEN <<Head(rows)>> \o SelectRows(Tail(rows), Tail(m))
         ELSE SelectRows(Tail(rows), Tail(m))

----------------------------------------------------------------------------
(* Filter logic *)

NoQuery == [c \in Fields |-> <<>>]

(* Variant: a missing optional column blocks every row *)
ApplyOptionalBlocking(d, st, c, frag) ==
    IF frag = <<>> THEN st
    ELSE IF HasColumn(d, c)
         THEN [st EXCEPT !.mask = MaskAnd(st.mask, ColumnContains(d, c, frag))]
         ELSE [mask |-> [i \in 1..Len(st.mask) |-> FALSE],
               warnings |-> Append(st.warnings, c)]

(* if search_x: if 'x' in df.columns: mask &= ... else: st.warning(...) *)
ApplyOptional(d, st, c, frag) ==
    IF frag = <<>> THEN st
    ELSE IF HasColumn(d, c)
         THEN [st EXCEPT !.mask = MaskAnd(st.mask, ColumnContains(d, c, frag))]
         ELSE [st EXCEPT !.warnings = Append(st.warnings, c)]

(* if search_body: mask &= df['body']... *)
ApplyBody(d, st, frag) ==
    IF frag = <<>> THEN st
    ELSE [st EXCEPT !.mask = MaskAnd(st.mask, ColumnContains(d, BODY, frag))]

(* The mask and the warnings after the four filter blocks, in script order *)
FilterMask(d, q) ==
    LET s0 == [mask |-> InitialMask(d), warnings |-> <<>>]
        s1 == ApplyOptional(d, s0, USERNAME, q[USERNAME])
        s2 == ApplyOptional(d, s1, EMAIL, q[EMAIL])
        s3 == ApplyOptional(d, s2, DEPARTMENT, q[DEPARTMENT])
    IN  ApplyBody(d, s3, q[BODY])

(* results_df = df[mask] *)
FilterRows(d, q) == SelectRows(d.data, FilterMask(d, q).mask)

----------------------------------------------------------------------------
(* Summarizer *)

StrValue(fmt, arg) == [type |-> "str", fmt |-> fmt, arg |-> arg]

Raised(exc) == [type |-> "raise", fmt |-> exc, arg |-> <<>>]

NoValue == [type |-> "none", fmt |-> "", arg |-> <<>>]

MODEL_NOT_LOADED == StrValue("Model not loaded.", <<>>)

TOO_SHORT == StrValue("Email is too short to summarize.", <<>>)

(* The transformers call that raises on this summarization, if any *)
Faults == {"none", "tokenizer", "generate", "decode"}

(* Variant: the whole text goes to the tokenizer *)
TruncateNothing(text) == text

(* text[:1024] *)
Truncate(text) == SubSeq(text, 1, IF Len(text) < MAX_CHARS THEN Len(text) ELSE MAX_CHARS)

(* Variant: the length threshold is off by one *)
IsTooShortOffByOne(text) == Len(text) < MIN_CHARS - 1

(* len(text) < 50 *)
IsTooShort(text) == Len(text) < MIN_CHARS

(* The three library calls are deterministic black boxes: each result is   *)
(* the symbolic term of its argument.                                      *)
tokenizer_call(s) == [input_ids |-> s]

generate(inputs) == [summary_ids |-> inputs.input_ids]

decode(ids) == StrValue("decoded summary", ids.summary_ids)

(* The body of the try block: the value returned or the exception raised,  *)
(* with the library calls made on the way.                                 *)
TryBlock(text, f) ==
    IF IsTooShort(text) THEN [ret |-> TOO_SHORT, calls |-> <<>>]
    ELSE
      LET arg == Truncate(text)
          c1  == <<[op |-> "tokenizer", arg |-> arg]>>
          c2  == Append(c1, [op |-> "generate", arg |-> arg])
          c3  == Append(c2, [op |-> "decode", arg |-> arg])
      IN  IF f = "tokenizer" THEN [ret |-> Raised("tokenizer failed"), calls |-> c1]
          ELSE IF f = "generate" THEN [ret |-> Raised("generate failed"), calls |-> c2]
          ELSE IF f = "decode" THEN [ret |-> Raised("decode failed"), calls |-> c3]
          ELSE [ret |-> decode(generate(tokenizer_call(arg))), calls |-> c3]

(* Variant: no except clause, the exception leaves the function *)
ExceptNothing(r) == r

(* except Exception as e: return f"Error during summarization: {e}" *)
ExceptException(r) ==
    IF r.ret.type = "raise"
    THEN [r EXCEPT !.ret = StrValue("Error during summarization: " \o r.ret.fmt, <<>>)]
    ELSE r

summarize_text(text, m, t, f) ==
    IF m = "None" \/ t = "None"
    THEN [ret |-> MODEL_NOT_LOADED, calls |-> <<>>]
    ELSE ExceptException(TryBlock(text, f))

(* str(row.get('body', '')) *)
RowBody(d, row) ==
    IF HasColumn(d, BODY) THEN astype_str(row.vals[ColPos(d, BODY)]).s ELSE <<>>

----------------------------------------------------------------------------
(* Model assets and st.cache_resource *)

NoAssets == [model |-> "None", tokenizer |-> "None"]

(* load_model_assets: ok says whether both from_pretrained calls succeed *)
load_model_assets(ok) ==
    IF ok THEN [model |-> "model", tokenizer |-> "tokenizer"] ELSE NoAssets

(* Variant: a failed load is not kept, so the next run loads again *)
CacheStoreSuccessOnly(c, value) == IF value = NoAssets THEN c ELSE <<value>>

(* st.cache_resource keeps whatever the function returned, (None, None)    *)
(* included, as the entry of the argument-less call.                       *)
CacheStore(c, value) == <<value>>

----------------------------------------------------------------------------
(* Inputs *)

NoCsv == [header |-> <<>>, lines |-> <<>>]

NoFile == [present |-> FALSE, size |-> 0, csv |-> NoCsv]

File(size, csv) == [present |-> TRUE, size |-> size, csv |-> csv]

(* Cell texts and search fragments: the letter "A"/"a" for the case       *)
(* folding, "." as text and as regex metacharacter, the empty cell.  The   *)
(* header lines used have distinct names after normalisation, and no       *)
(* fragment is an invalid regular expression (re.error is not modelled).   *)
CellTexts == {<<>>, <<"A">>, <<".">>}

Fragments == {<<>>, <<"a">>, <<".">>}

Queries == [Fields -> Fragments]

(* Header lines: the body column alone or after one optional column *)
Headers == {<<BODY>>, <<USERNAME, BODY>>, <<EMAIL, BODY>>, <<DEPARTMENT, BODY>>}

CsvLines(n) == UNION {[1..k -> [1..n -> CellTexts]] : k \in 0..MaxRows}

SmallCsvs ==
    UNION {{[header |-> h, lines |-> l] : l \in CsvLines(Len(h))} : h \in Headers}

(* One-line files with all four searchable columns *)
WideCsvs ==
    {[header |-> <<USERNAME, EMAIL, DEPARTMENT, BODY>>, lines |-> <<l>>] :
        l \in [1..4 -> CellTexts]}

Tails == UNION {[1..k -> {"a", "."}] : k \in 0..MaxTail}

HeadLens == {0, MIN_CHARS - 2, MIN_CHARS - 1,
             MAX_CHARS - 2, MAX_CHARS - 1, MAX_CHARS}

Texts == {Repeat("A", n) \o t : n \in HeadLens, t \in Tails}

LongBody == Repeat("A", MIN_CHARS)

(* The uploads of the whole-page specification: raw header spellings, a   *)
(* file over the size limit, one exactly at it, one without a body column *)
AppFiles ==
    {NoFile,
     File(MAX_FILE_SIZE_BYTES + 1,
          [header |-> <<BODY>>, lines |-> <<<<LongBody>>>>]),
     File(MAX_FILE_SIZE_BYTES,
          [header |-> <<<<" ","B","o","d","y">>, <<"U","S","E","R","N","A","M","E"," ">>>>,
           lines  |-> <<<<LongBody, <<"A">>>>, <<<<".">>, <<>>>>>>]),
     File(2048,
          [header |-> <<USERNAME, <<"b","o","d","y","2">>>>,
           lines  |-> <<<<<<"A">>, LongBody>>>>]),
     File(1024,
          [header |-> <<BODY>>, lines |-> <<>>])}

----------------------------------------------------------------------------
(* The script, one block per action *)

(* Variant: the size is compared in whole megabytes *)
TooLargeWholeMB(size) == size \div (1024 * 1024) > MAX_FILE_SIZE_MB

(* uploaded_file.size > MAX_FILE_SIZE_BYTES *)
TooLarge(size) == size > MAX_FILE_SIZE_BYTES

RunLocals ==
    /\ df = NoFrame
    /\ results_df = <<>>
    /\ warnings = <<>>
    /\ errors = <<>>
    /\ steps = {}
    /\ search = NoQuery
    /\ click = -1
    /\ model = "unset"
    /\ tokenizer = "unset"
    /\ fault = "none"
    /\ summary = NoValue
    /\ calls = <<>>

Init ==
    /\ pc = "idle"
    /\ runs = 0
    /\ uploaded_file = NoFile
    /\ cache = <<>>
    /\ loadAttempts = 0
    /\ cacheHits = 0
    /\ RunLocals

(* A user interaction: Streamlit runs the script again from the top; the  *)
(* script's variables start afresh, the resource cache is kept.           *)
Rerun ==
    /\ pc \in {"idle", "done", "stopped"}
    /\ runs < MaxRuns
    /\ runs' = runs + 1
    /\ \E f \in AppFiles : uploaded_file' = f
    /\ pc' = "size_check"
    /\ df' = NoFrame
    /\ results_df' = <<>>
    /\ warnings' = <<>>
    /\ errors' = <<>>
    /\ steps' = {}
    /\ search' = NoQuery
    /\ click' = -1
    /\ model' = "unset"
    /\ tokenizer' = "unset"
    /\ fault' = "none"
    /\ summary' = NoValue
    /\ calls' = <<>>
    /\ UNCHANGED <<cache, loadAttempts, cacheHits>>

(* if uploaded_file: the size check, else the empty-state message *)
FileSizeCheck ==
    /\ pc = "size_check"
    /\ IF ~uploaded_file.present
       THEN pc' = "done" /\ UNCHANGED errors
       ELSE IF TooLarge(uploaded_file.size)
            THEN pc' = "stopped" /\ errors' = Append(errors, "too_large")
            ELSE pc' = "load_data" /\ UNCHANGED errors
    /\ UNCHANGED <<runs, uploaded_file, search, click, df, results_df, warnings,
                   steps, cache, loadAttempts, cacheHits, model, tokenizer,
                   fault, summary, calls>>

(* pd.read_csv, the column normalisation and the 'body' column check *)
LoadData ==
    /\ pc = "load_data"
    /\ df' = NormalizeColumns(read_csv(uploaded_file.csv))
    /\ steps' = steps \cup {"read_csv"}
    /\ IF HasColumn(df', BODY)
       THEN pc' = "filter" /\ UNCHANGED errors
       ELSE pc' = "stopped" /\ errors' = Append(errors, "no_body")
    /\ UNCHANGED <<runs, uploaded_file, search, click, results_df, warnings,
                   cache, loadAttempts, cacheHits, model, tokenizer, fault,
                   summary, calls>>

(* The four text inputs, the mask and results_df = df[mask] *)
FilterLogic ==
    /\ pc = "filter"
    /\ \E q \in Queries :
         /\ search' = q
         /\ warnings' = warnings \o FilterMask(df, q).warnings
         /\ results_df' = FilterRows(df, q)
    /\ steps' = steps \cup {"filter"}
    /\ pc' = "load_model"
    /\ UNCHANGED <<runs, uploaded_file, click, df, errors, cache, loadAttempts,
                   cacheHits, model, tokenizer, fault, summary, calls>>

(* model, tokenizer = load_model_assets() through st.cache_resource: the  *)
(* function body runs only when the cache has no entry; a cached result   *)
(* is returned with its recorded st.error element replayed.               *)
LoadModel ==
    /\ pc = "load_model"
    /\ IF cache # <<>>
       THEN /\ model' = cache[1].model
            /\ tokenizer' = cache[1].tokenizer
            /\ errors' = IF cache[1] = NoAssets
                         THEN Append(errors, "load_failed") ELSE errors
            /\ cacheHits' = cacheHits + 1
            /\ UNCHANGED <<cache, loadAttempts>>
       ELSE \E ok \in BOOLEAN :
              LET value == load_model_assets(ok)
              IN  /\ loadAttempts' = loadAttempts + 1
                  /\ cache' = CacheStore(cache, value)
                  /\ UNCHANGED cacheHits
                  /\ model' = value.model
                  /\ tokenizer' = value.tokenizer
                  /\ errors' = IF ok THEN errors ELSE Append(errors, "load_failed")
    /\ steps' = steps \cup {"load_model"}
    /\ pc' = "display"
    /\ UNCHANGED <<runs, uploaded_file, search, click, df, results_df, warnings,
                   fault, summary, calls>>

RowIndexes(rows) == {rows[i].index : i \in 1..Len(rows)}

RowAt(rows, k) == rows[CHOOSE i \in 1..Len(rows) : rows[i].index = k]

(* The result cards; the row whose Summarize button was pressed, if any,  *)
(* gets summarize_text(body, model, tokenizer).                           *)
DisplayResults ==
    /\ pc = "display"
    /\ \E k \in {-1} \cup RowIndexes(results_df), f \in Faults :
         /\ click' = k
         /\ IF k = -1
            THEN UNCHANGED <<fault, summary, calls, steps>>
            ELSE LET r == summarize_text(RowBody(df, RowAt(results_df, k)),
                                         model, tokenizer, f)
                 IN  /\ fault' = f
                     /\ summary' = r.ret
                     /\ calls' = r.calls
                     /\ steps' = steps \cup {"summarize"}
    /\ pc' = "done"
    /\ UNCHANGED <<runs, uploaded_file, search, df, results_df, warnings,
                   errors, cache, loadAttempts, cacheHits, model, tokenizer>>

Next ==
    \/ Rerun
    \/ FileSizeCheck
    \/ LoadData
    \/ FilterLogic
    \/ LoadModel
    \/ DisplayResults

Spec == Init /\ [][Next]_vars

----------------------------------------------------------------------------
(* The filter block on every small data frame *)

InitFilter ==
    /\ pc = "filter"
    /\ runs = 1
    /\ \E csv \in SmallCsvs \cup WideCsvs :
         /\ uploaded_file = File(1024, csv)
         /\ df = NormalizeColumns(read_csv(csv))
    /\ results_df = <<>>
    /\ warnings = <<>>
    /\ errors = <<>>
    /\ steps = {"read_csv"}
    /\ search = NoQuery
    /\ click = -1
    /\ cache = <<>>
    /\ loadAttempts = 0
    /\ cacheHits = 0
    /\ model = "unset"
    /\ tokenizer = "unset"
    /\ fault = "none"
    /\ summary = NoValue
    /\ calls = <<>>

SpecFilter == InitFilter /\ [][FilterLogic]_vars

(* The result cards of a one-row frame, for every text and both outcomes  *)
(* of the model load                                                      *)

InitSum ==
    /\ pc = "display"
    /\ runs = 1
    /\ \E text \in Texts :
         LET csv == [header |-> <<BODY>>, lines |-> <<<<text>>>>]
             d   == NormalizeColumns(read_csv(csv))
         IN  /\ uploaded_file = File(1024, csv)
             /\ df = d
             /\ results_df = FilterRows(d, NoQuery)
    /\ \E ok \in BOOLEAN :
         /\ cache = <<load_model_assets(ok)>>
         /\ model = load_model_assets(ok).model
         /\ tokenizer = load_model_assets(ok).tokenizer
         /\ errors = IF ok THEN <<>> ELSE <<"load_failed">>
    /\ loadAttempts = 1
    /\ cacheHits = 0
    /\ warnings = <<>>
    /\ steps = {"read_csv", "filter", "load_model"}
    /\ search = NoQuery
    /\ click = -1
    /\ fault = "none"
    /\ summary = NoValue
    /\ calls = <<>>

SpecSum == InitSum /\ [][DisplayResults]_vars

----------------------------------------------------------------------------
(* Properties *)

Range(sq) == {sq[i] : i \in 1..Len(sq)}

Filtered == "filter" \in steps

Summarized == "summarize" \in steps

(* The text handed to summarize_text in this run *)
CurrentText == RowBody(df, RowAt(results_df, click))

(* f occurs in s as a substring, letter case ignored *)
IsSubstringCI(f, s) ==
    \E i \in 0..(Len(s) - Len(f)) :
        \A j \in 1..Len(f) : LowerChar(f[j]) = LowerChar(s[i + j])

(* The text pandas compares: str(value) *)
StringForm(v) == IF v.na THEN NAN_TEXT ELSE v.s

(* t1 and t2 have the same first MAX_CHARS characters *)
AgreeOnPrefix(t1, t2) ==
    \A i \in 1..MAX_CHARS :
        /\ (i <= Len(t1)) <=> (i <= Len(t2))
        /\ (i <= Len(t1)) => t1[i] = t2[i]

(* C1: summarize_text never raises: whatever the text, whether the model   *)
(* assets are loaded or (None, None), and whichever of the tokenizer,      *)
(* generate and decode calls fails, the call returns a string: a summary,  *)
(* the too-short sentinel or a failure description.                        *)
C1_NeverRaises ==
    Summarized =>
        /\ summary.type = "str"
        /\ \/ summary = MODEL_NOT_LOADED
           \/ summary = TOO_SHORT
           \/ summary = decode(generate(tokenizer_call(Truncate(CurrentText))))
           \/ /\ fault # "none"
              /\ summary = StrValue("Error during summarization: "
                                    \o fault \o " failed", <<>>)

C1_Witness ==
    /\ Summarized
    /\ model = "model"
    /\ fault = "decode"
    /\ Len(CurrentText) > MAX_CHARS
    /\ summary = StrValue("Error during summarization: decode failed", <<>>)

(* C2 as stated: every text of fewer than 50 characters gets exactly the   *)
(* sentinel "Email is too short to summarize." for any model handle, and   *)
(* no tokenizer or model call is made.                                     *)
C2_SentinelAnyHandle ==
    (Summarized /\ Len(CurrentText) < MIN_CHARS) =>
        /\ summary = TOO_SHORT
        /\ calls = <<>>

(* C2 amended: a text of fewer than 50 characters gets exactly the         *)
(* sentinel when the model and the tokenizer are both loaded, and "Model   *)
(* not loaded." when either is None; neither case calls the tokenizer or   *)
(* the model, and neither depends on the text's content.                   *)
C2_SentinelWhenLoaded ==
    (Summarized /\ Len(CurrentText) < MIN_CHARS) =>
        /\ calls = <<>>
        /\ (model # "None" /\ tokenizer # "None") => summary = TOO_SHORT
        /\ (model = "None" \/ tokenizer = "None") => summary = MODEL_NOT_LOADED

C2_Witness ==
    /\ Summarized
    /\ Len(CurrentText) = MIN_CHARS - 1
    /\ model = "model"
    /\ tokenizer = "tokenizer"
    /\ fault # "none"
    /\ summary = TOO_SHORT

(* C3: within one process the body of load_model_assets runs at most once: *)
(* a failed load is kept in the cache, later runs are served from the      *)
(* cache, and every summarize call after a failed load returns a failure   *)
(* string, never a summary.                                                *)
C3_LoadOnce ==
    /\ loadAttempts <= 1
    /\ cacheHits > 0 => loadAttempts = 1
    /\ cache = <<NoAssets>> =>
          /\ "load_model" \in steps => (model = "None" /\ tokenizer = "None")
          /\ Summarized => summary = MODEL_NOT_LOADED

C3_Witness ==
    /\ runs > 1
    /\ cache = <<NoAssets>>
    /\ loadAttempts = 1
    /\ cacheHits > 0
    /\ Summarized
    /\ Len(CurrentText) >= MIN_CHARS
    /\ summary = MODEL_NOT_LOADED

(* C4: a row whose value for a queried field is missing (NaN) is never in  *)
(* the result when that field's fragment is non-empty.                     *)
C4_MissingNeverMatches ==
    Filtered =>
        \A i \in 1..Len(results_df) : \A c \in Fields :
            (search[c] # <<>> /\ HasColumn(df, c)) =>
                ~results_df[i].vals[ColPos(df, c)].na

(* C5: every row of the result, for each non-empty fragment f on field c,  *)
(* either lacks column c in the frame or has f in the string form of its   *)
(* value as a case-insensitive substring.                                  *)
C5_Soundness ==
    Filtered =>
        \A i \in 1..Len(results_df) : \A c \in Fields :
            search[c] # <<>> =>
                \/ ~HasColumn(df, c)
                \/ IsSubstringCI(search[c],
                                 StringForm(results_df[i].vals[ColPos(df, c)]))

(* C6: with all four fragments empty the result is the whole frame, the    *)
(* same rows in the same order, and no warning; an empty frame gives an    *)
(* empty result.                                                           *)
C6_EmptyQueryIdentity ==
    (Filtered /\ search = NoQuery) =>
        /\ results_df = df.data
        /\ warnings = <<>>
        /\ pc # "stopped"

C6_Witness ==
    /\ Filtered
    /\ search = NoQuery
    /\ Len(df.data) >= 2
    /\ df.data[1].vals # df.data[2].vals
    /\ results_df = df.data

(* C7: a non-empty fragment for an optional field whose column is absent   *)
(* gives a warning and filters nothing: the result is the one the same     *)
(* query gives with that fragment emptied, and the full frame when no      *)
(* other fragment is active.                                               *)
C7_AbsentColumnIgnored ==
    Filtered =>
        \A k \in 1..Len(OptionalFields) :
            LET c == OptionalFields[k]
                q == [search EXCEPT ![c] = <<>>]
            IN  (search[c] # <<>> /\ ~HasColumn(df, c)) =>
                    /\ c \in Range(warnings)
                    /\ results_df = FilterRows(df, q)
                    /\ q = NoQuery => results_df = df.data

C7_Witness ==
    /\ Filtered
    /\ ~HasColumn(df, DEPARTMENT)
    /\ search = [NoQuery EXCEPT ![DEPARTMENT] = <<"a">>]
    /\ warnings = <<DEPARTMENT>>
    /\ Len(df.data) >= 2
    /\ results_df = df.data

(* C8: a file over 500 MB stops the run with an error before it is parsed, *)
(* and a parsed file with no column that normalizes to 'body' stops the    *)
(* run with an error; the stopped run does no filtering, no model load and *)
(* no summarization.                                                       *)
C8_FatalErrorsHalt ==
    LET h == uploaded_file.csv.header
        oversize == uploaded_file.present
                    /\ uploaded_file.size > MAX_FILE_SIZE_MB * 1024 * 1024
        nobody == uploaded_file.present /\ ~oversize
                  /\ \A j \in 1..Len(h) : lower(strip(h[j])) # BODY
    IN  /\ (oversize /\ pc \notin {"idle", "size_check"}) =>
              /\ pc = "stopped"
              /\ errors = <<"too_large">>
              /\ steps = {}
              /\ df = NoFrame
        /\ (nobody /\ pc \notin {"idle", "size_check", "load_data"}) =>
              /\ pc = "stopped"
              /\ errors = <<"no_body">>
              /\ steps = {"read_csv"}
        /\ pc = "stopped" =>
              /\ steps \subseteq {"read_csv"}
              /\ results_df = <<>>
              /\ model = "unset"
              /\ summary = NoValue
              /\ calls = <<>>

C8_Witness ==
    /\ pc = "stopped"
    /\ uploaded_file.size = MAX_FILE_SIZE_BYTES + 1
    /\ errors = <<"too_large">>
    /\ steps = {}
    /\ runs > 1

(* C9: two texts of at least 50 characters with the same first 1024        *)
(* characters give, with the same model handle, the same tokenizer input   *)
(* and the same result, whatever follows the 1024th character.             *)
C9_PrefixOnly ==
    (Summarized /\ Len(CurrentText) >= MIN_CHARS) =>
        \A t \in Texts :
            (Len(t) >= MIN_CHARS /\ AgreeOnPrefix(CurrentText, t)) =>
                LET r == summarize_text(t, model, tokenizer, fault)
                IN  /\ r.ret = summary
                    /\ r.calls = calls

C9_Witness ==
    /\ Summarized
    /\ model = "model"
    /\ fault = "none"
    /\ Len(CurrentText) > MAX_CHARS
    /\ \E t \in Texts : t # CurrentText /\ AgreeOnPrefix(CurrentText, t)
    /\ summary = decode(generate(tokenizer_call(SubSeq(CurrentText, 1, MAX_CHARS))))

(* C10: making one empty fragment non-empty, the others unchanged, gives a *)
(* result that is a subset of the previous result, so never a larger one.  *)
C10_Monotonic ==
    Filtered =>
        \A c \in Fields : \A f \in Fragments \ {<<>>} :
            search[c] = <<>> =>
                LET more == FilterRows(df, [search EXCEPT ![c] = f])
                IN  /\ RowIndexes(more) \subseteq RowIndexes(results_df)
                    /\ Range(more) \subseteq Range(results_df)
                    /\ Len(more) <= Len(results_df)

C10_Witness ==
    /\ Filtered
    /\ search[USERNAME] # <<>>
    /\ search[BODY] = <<>>
    /\ HasColumn(df, USERNAME)
    /\ Len(results_df) = 1
    /\ Len(df.data) >= 2
    /\ FilterRows(df, [search EXCEPT ![BODY] = <<"a">>]) = <<>>

====
